---- MODULE Spec2Model ----
(***************************************************************************)
(* Store-and-forward relay between mobile clients and controllers:         *)
(* the in-memory MessageQueue (FIFO queue per controller for mobile        *)
(* commands, a single latest-value slot per controller for heartbeats,     *)
(* both with an 11 minute expiry), the sliding-window RateLimiter and the  *)
(* route handlers that combine them.                                       *)
(*                                                                         *)
(* Node.js runs every handler and every timer callback to completion on    *)
(* one thread and none of the handlers modelled here awaits, so each       *)
(* handler is one atomic action and the interleavings of concurrent        *)
(* requests are exactly the orders in which whole handlers run.            *)
(*                                                                         *)
(* Time is Date.now() in milliseconds.  The clock never runs backwards.    *)
(***************************************************************************)
EXTENDS Integers, Sequences, FiniteSets, TLC

\* ---------------------------------------------------------------- bounds
MaxTicks == 2          \* clock advances in one behaviour
MaxMessages == 3       \* messages created in one behaviour, one direction only
MaxMixed == 2          \* messages created in one behaviour, both directions
MaxStored == 26        \* timestamps held by the rate limiter at one time
MaxOther == 1          \* requests of the second account accepted within one window
MaxRelayed == 1        \* messages created through the routes in one behaviour
MaxSwept == 1          \* messages created in one behaviour while the sweep is fair
MaxAsked == 2          \* mobile requests the limiter holds at one time, end to end

\* ------------------------------------------------------ program constants
TTL == 11 * 60 * 1000          \* expiresAt = Date.now() + TTL
CleanupPeriod == 60 * 1000     \* setInterval period of both sweeps
WINDOW == 30 * 1000            \* windowStart = now - (30 * 1000)
LIMIT == 25                    \* recentTimestamps.length >= 25

\* ---------------------------------------------------------------- inputs
\* Map keys are compared with SameValueZero, so the number 7 and the
\* string "7" are two different keys.
Keys == {"num:7", "str:7"}
Payloads == {"cGF5bG9hZC1B", "cGF5bG9hZC1C"}
\* expiresAt as supplied by the caller inside the message (0: not supplied):
\* one that has passed already, and one later than the time to live allows
SuppliedExpiry == {0, 1, 2 * TTL}
\* clock advances used by the queue engine: one millisecond, and the
\* time to live
QueueSteps == {1, TTL}
\* rate limiter keys: auth:<account id> and ip:<source address>
Accounts == {"user-1", "user-2"}
Addresses == {"10.0.0.1"}
AuthKey(a) == <<"auth", a>>
IpKey(ip) == <<"ip", ip>>
AccountKeys == {AuthKey(a) : a \in Accounts}
AddressKeys == {IpKey(ip) : ip \in Addresses}
RateKeys == AccountKeys \cup AddressKeys
\* the key the rate limiter is called with when it is exercised alone
LimiterKeys == {AuthKey("user-1")}
\* clock advances used by the rate limiter: one millisecond, and one
\* millisecond less than the window
LimiterSteps == {1, WINDOW - 1}
\* :controllerId in a URL
UrlIds == {"7", "abc"}

VARIABLES
  now,               \* Date.now()
  ticks,             \* number of clock advances so far
  mobileAppQueue,    \* Map controllerId -> array of Message
  controllerQueue,   \* Map controllerId -> Message
  nextId,            \* number of message objects created (object identity)
  ret,               \* the last call: operation, key, return value
  fifoIn,            \* history: key -> ids enqueued, in order
  fifoOut,           \* history: key -> ids returned by dequeues, in order
  slotIn,            \* history: key -> the latest upsert: id, clock, number of upserts,
                     \* payload and sender as passed by the caller
  slotOut,           \* history: id -> number of takes that returned it
  unswept,           \* history: the two maps as the same calls would have left
                     \* them had cleanupAllExpiredMessages never run
  requests,          \* RateLimiter: Map key -> array of timestamps
  window,            \* history: key -> timestamps recorded in (now - 30 s, now]
  blocked            \* history: the keys a checkLimit has refused

vars == <<now, ticks, mobileAppQueue, controllerQueue, nextId, ret,
          fifoIn, fifoOut, slotIn, slotOut, unswept, requests, window, blocked>>

queueVars == <<mobileAppQueue, controllerQueue>>
histVars == <<fifoIn, fifoOut, slotIn, slotOut, unswept>>
limiterVars == <<requests, window, blocked>>

Ids == 1..(MaxMessages + 1)

\* ------------------------------------------------------------ Map helpers
MapHas(map, k) == k \in DOMAIN map
MapSet(map, k, v) == [x \in (DOMAIN map) \cup {k} |-> IF x = k THEN v ELSE map[x]]
MapDelete(map, k) == [x \in (DOMAIN map) \ {k} |-> map[x]]
EmptyMap == [x \in {} |-> 0]

\* null
NoMessage == [id |-> 0]

\* what the last call or request returned: a message or null, a boolean,
\* an HTTP status (0: not a request)
Returned(op, k, val, ok, status) ==
  [op |-> op, who |-> <<>>, key |-> k, val |-> val, ok |-> ok, status |-> status,
   checked |-> {}, given |-> 0, arg |-> NoMessage]

\* what a request of account a from address ip was answered
Responded(op, a, ip, k, val, status) ==
  [op |-> op, who |-> <<a, ip>>, key |-> k, val |-> val, ok |-> TRUE, status |-> status,
   checked |-> {}, given |-> 0, arg |-> NoMessage]

\* the same response of a handler that has called checkLimit on these keys
Consulted(response, keys) == [response EXCEPT !.checked = keys]

\* the same return of a call that was passed a message with this expiresAt
Supplied(response, e) == [response EXCEPT !.given = e]

\* the same return of a call that was passed this message object
WithArgument(response, message) == [response EXCEPT !.arg = message]

\* no call has returned since the clock last advanced
NoCall == Returned("none", "", NoMessage, TRUE, 0)

\* JavaScript truthiness of a number
Truthy(n) == n # 0

\* the ids of the messages of a sequence
IdsOf(q) == {q[i].id : i \in 1..Len(q)}
IdSeq(q) == [i \in 1..Len(q) |-> q[i].id]

\* --------------------------------------------------------------- Message
MobileSender == [ip |-> "10.0.0.1", type |-> "mobile", authId |-> "user-1"]
ControllerSender == [ip |-> "10.0.0.2", type |-> "controller", authId |-> ""]
NoSender == [ip |-> "", type |-> "", authId |-> ""]

\* the message objects a caller can pass for key k at the current clock
NewMessage(k, sender, p, e) ==
  [id |-> nextId + 1, born |-> now, timestamp |-> now, sender |-> sender,
   controllerId |-> k, protobufPayload |-> p, expiresAt |-> e]

\* variant: { expiresAt: Date.now() + (11 * 60 * 1000), ...message }, an
\* expiresAt of the message itself wins
WithExpirySupplied(message, t) ==
  IF Truthy(message.expiresAt) THEN message ELSE [message EXCEPT !.expiresAt = t + TTL]

\* { ...message, expiresAt: Date.now() + (11 * 60 * 1000) }
WithExpiry(message, t) == [message EXCEPT !.expiresAt = t + TTL]

\* variant: an entry lives one millisecond longer
IsExpiredLate(message, t) == Truthy(message.expiresAt) /\ t > message.expiresAt + 1

\* message.expiresAt && now > message.expiresAt
IsExpired(message, t) == Truthy(message.expiresAt) /\ t > message.expiresAt

\* ---------------------------------------------------------- MessageQueue
Init ==
  /\ now = 0
  /\ ticks = 0
  /\ mobileAppQueue = EmptyMap
  /\ controllerQueue = EmptyMap
  /\ nextId = 0
  /\ ret = NoCall
  /\ fifoIn = [k \in Keys |-> <<>>]
  /\ fifoOut = [k \in Keys |-> <<>>]
  /\ slotIn = [k \in Keys |-> [id |-> 0, born |-> 0, n |-> 0, payload |-> "", sender |-> NoSender]]
  /\ slotOut = [i \in Ids |-> 0]
  /\ unswept = [mobileAppQueue |-> EmptyMap, controllerQueue |-> EmptyMap]
  /\ requests = EmptyMap
  /\ window = [key \in RateKeys |-> <<>>]
  /\ blocked = {}

\* the timestamps of a sequence that lie in the trailing window (t - 30 s, t]
InWindow(timestamps, t) ==
  SelectSeq(timestamps, LAMBDA ts : t - WINDOW < ts /\ ts <= t)

Tick(steps) ==
  /\ ticks < MaxTicks
  /\ \E d \in steps : now' = now + d
  /\ ticks' = ticks + 1
  /\ ret' = NoCall
  /\ window' = [key \in RateKeys |-> InWindow(window[key], now')]
  /\ UNCHANGED <<queueVars, nextId, histVars, requests, blocked>>

\* variant: unshift() instead of push(), the new entry goes to the front
AddMobileAppMessageToFront(map, k, message, t) ==
  LET created == IF MapHas(map, k) THEN map ELSE MapSet(map, k, <<>>)
  IN  MapSet(created, k, <<WithExpiry(message, t)>> \o created[k])

\* variant: an enqueue gives every entry of the array a new expiry
AddMobileAppMessageToRestamp(map, k, message, t) ==
  LET created == IF MapHas(map, k) THEN map ELSE MapSet(map, k, <<>>)
      restamped == [i \in 1..Len(created[k]) |-> WithExpiry(created[k][i], t)]
  IN  MapSet(created, k, Append(restamped, WithExpiry(message, t)))

\* addMobileAppMessage(controllerId, message)
AddMobileAppMessageTo(map, k, message, t) ==
  LET created == IF MapHas(map, k) THEN map ELSE MapSet(map, k, <<>>)
  IN  MapSet(created, k, Append(created[k], WithExpiry(message, t)))

Enqueued(k, message) ==
  /\ mobileAppQueue' = AddMobileAppMessageTo(mobileAppQueue, k, message, now)
  /\ nextId' = message.id
  /\ fifoIn' = [fifoIn EXCEPT ![k] = Append(@, message.id)]
  /\ unswept' = [unswept EXCEPT !.mobileAppQueue = AddMobileAppMessageTo(@, k, message, now)]
  /\ UNCHANGED <<controllerQueue, fifoOut, slotIn, slotOut>>

AddMobileAppMessage(k, message) ==
  /\ Enqueued(k, message)
  /\ ret' = WithArgument(Supplied(Returned("addMobile", k, NoMessage, TRUE, 0),
                                   message.expiresAt), message)
  /\ UNCHANGED <<now, ticks, limiterVars>>

\* variant: an occupied slot keeps its entry
AddControllerMessageToKeepFirst(map, k, message, t) ==
  IF MapHas(map, k) THEN map ELSE MapSet(map, k, WithExpiry(message, t))

\* variant: a slot that is already filled keeps its payload
AddControllerMessageToMixed(map, k, message, t) ==
  IF MapHas(map, k)
  THEN MapSet(map, k, [WithExpiry(message, t) EXCEPT !.protobufPayload = map[k].protobufPayload])
  ELSE MapSet(map, k, WithExpiry(message, t))

\* addControllerMessage(controllerId, message)
AddControllerMessageTo(map, k, message, t) ==
  MapSet(map, k, WithExpiry(message, t))

Upserted(k, message) ==
  /\ controllerQueue' = AddControllerMessageTo(controllerQueue, k, message, now)
  /\ nextId' = message.id
  /\ slotIn' = [slotIn EXCEPT ![k] = [id |-> message.id, born |-> now, n |-> @.n + 1,
                                      payload |-> message.protobufPayload,
                                      sender |-> message.sender]]
  /\ unswept' = [unswept EXCEPT !.controllerQueue = AddControllerMessageTo(@, k, message, now)]
  /\ UNCHANGED <<mobileAppQueue, fifoIn, fifoOut, slotOut>>

AddControllerMessage(k, message) ==
  /\ Upserted(k, message)
  /\ ret' = WithArgument(Supplied(Returned("addController", k, NoMessage, TRUE, 0),
                                   message.expiresAt), message)
  /\ UNCHANGED <<now, ticks, limiterVars>>

\* variant: `if` instead of `while`, one expired head at most is shifted
cleanupExpiredMessagesOnce(queue, t) ==
  IF Len(queue) > 0 /\ IsExpired(queue[1], t) THEN Tail(queue) ELSE queue

\* cleanupExpiredMessages(controllerId, queue): shift() while the head is expired
RECURSIVE cleanupExpiredMessages(_, _)
cleanupExpiredMessages(queue, t) ==
  IF Len(queue) > 0 /\ IsExpired(queue[1], t)
  THEN cleanupExpiredMessages(Tail(queue), t)
  ELSE queue

\* variant: pop() instead of shift()
GetMobileAppMessageResultLifo(map, k, t) ==
  IF ~MapHas(map, k) \/ Len(map[k]) = 0
  THEN [map |-> map, val |-> NoMessage]
  ELSE LET queue == cleanupExpiredMessages(map[k], t)
           rest == SubSeq(queue, 1, Len(queue) - 1)
       IN  IF Len(queue) = 0
           THEN [map |-> MapSet(map, k, queue), val |-> NoMessage]
           ELSE IF Len(rest) = 0
                THEN [map |-> MapDelete(map, k), val |-> queue[Len(queue)]]
                ELSE [map |-> MapSet(map, k, rest), val |-> queue[Len(queue)]]

\* variant: queue[0] instead of shift(), the head stays in the array
GetMobileAppMessageResultPeek(map, k, t) ==
  IF ~MapHas(map, k) \/ Len(map[k]) = 0
  THEN [map |-> map, val |-> NoMessage]
  ELSE LET queue == cleanupExpiredMessages(map[k], t)
       IN  IF Len(queue) = 0
           THEN [map |-> MapSet(map, k, queue), val |-> NoMessage]
           ELSE [map |-> MapSet(map, k, queue), val |-> Head(queue)]

\* variant: the array is left in the map after its last entry was shifted
GetMobileAppMessageResultLeak(map, k, t) ==
  IF ~MapHas(map, k) \/ Len(map[k]) = 0
  THEN [map |-> map, val |-> NoMessage]
  ELSE LET queue == cleanupExpiredMessages(map[k], t)
       IN  IF Len(queue) = 0
           THEN [map |-> MapSet(map, k, queue), val |-> NoMessage]
           ELSE [map |-> MapSet(map, k, Tail(queue)), val |-> Head(queue)]

\* variant: a lookup of a key that is not in the map creates it
GetMobileAppMessageResultCreate(map, k, t) ==
  IF ~MapHas(map, k)
  THEN [map |-> MapSet(map, k, <<>>), val |-> NoMessage]
  ELSE IF Len(map[k]) = 0
  THEN [map |-> map, val |-> NoMessage]
  ELSE LET queue == cleanupExpiredMessages(map[k], t)
       IN  IF Len(queue) = 0
           THEN [map |-> MapSet(map, k, queue), val |-> NoMessage]
           ELSE IF Len(Tail(queue)) = 0
                THEN [map |-> MapDelete(map, k), val |-> Head(queue)]
                ELSE [map |-> MapSet(map, k, Tail(queue)), val |-> Head(queue)]

\* getMobileAppMessage(controllerId): the map afterwards and the value returned
GetMobileAppMessageResult(map, k, t) ==
  IF ~MapHas(map, k) \/ Len(map[k]) = 0
  THEN [map |-> map, val |-> NoMessage]
  ELSE LET queue == cleanupExpiredMessages(map[k], t)
       IN  IF Len(queue) = 0
           THEN [map |-> MapSet(map, k, queue), val |-> NoMessage]
           ELSE IF Len(Tail(queue)) = 0
                THEN [map |-> MapDelete(map, k), val |-> Head(queue)]
                ELSE [map |-> MapSet(map, k, Tail(queue)), val |-> Head(queue)]

Dequeued(k, r) ==
  /\ mobileAppQueue' = r.map
  /\ fifoOut' = IF r.val = NoMessage THEN fifoOut
                ELSE [fifoOut EXCEPT ![k] = Append(@, r.val.id)]
  /\ unswept' = [unswept EXCEPT !.mobileAppQueue = GetMobileAppMessageResult(@, k, now).map]
  /\ UNCHANGED <<controllerQueue, nextId, fifoIn, slotIn, slotOut>>

GetMobileAppMessage(k) ==
  LET r == GetMobileAppMessageResult(mobileAppQueue, k, now)
  IN  /\ Dequeued(k, r)
      /\ ret' = Returned("getMobile", k, r.val, TRUE, 0)
      /\ UNCHANGED <<now, ticks, limiterVars>>

\* variant: the entry is not deleted after a successful retrieval
GetControllerMessageResultKeep(map, k, t) ==
  IF ~MapHas(map, k)
  THEN [map |-> map, val |-> NoMessage]
  ELSE IF IsExpired(map[k], t)
       THEN [map |-> MapDelete(map, k), val |-> NoMessage]
       ELSE [map |-> map, val |-> map[k]]

\* variant: clear() instead of delete(controllerId) after a successful retrieval
GetControllerMessageResultClear(map, k, t) ==
  IF ~MapHas(map, k)
  THEN [map |-> map, val |-> NoMessage]
  ELSE IF IsExpired(map[k], t)
       THEN [map |-> MapDelete(map, k), val |-> NoMessage]
       ELSE [map |-> EmptyMap, val |-> map[k]]

\* getControllerMessage(controllerId): the map afterwards and the value returned
GetControllerMessageResult(map, k, t) ==
  IF ~MapHas(map, k)
  THEN [map |-> map, val |-> NoMessage]
  ELSE IF IsExpired(map[k], t)
       THEN [map |-> MapDelete(map, k), val |-> NoMessage]
       ELSE [map |-> MapDelete(map, k), val |-> map[k]]

Taken(k, r) ==
  /\ controllerQueue' = r.map
  /\ slotOut' = IF r.val = NoMessage THEN slotOut
                ELSE [slotOut EXCEPT ![r.val.id] = @ + 1]
  /\ unswept' = [unswept EXCEPT !.controllerQueue = GetControllerMessageResult(@, k, now).map]
  /\ UNCHANGED <<mobileAppQueue, nextId, fifoIn, fifoOut, slotIn>>

GetControllerMessage(k) ==
  LET r == GetControllerMessageResult(controllerQueue, k, now)
  IN  /\ Taken(k, r)
      /\ ret' = Returned("getController", k, r.val, TRUE, 0)
      /\ UNCHANGED <<now, ticks, limiterVars>>

\* variant: the filter keeps an entry only strictly before its expiry
FilterUnexpiredStrict(queue, t) ==
  SelectSeq(queue, LAMBDA msg : ~Truthy(msg.expiresAt) \/ t < msg.expiresAt)

\* cleanupAllExpiredMessages(): queue.filter(msg => !msg.expiresAt || now <= msg.expiresAt)
FilterUnexpired(queue, t) ==
  SelectSeq(queue, LAMBDA msg : ~Truthy(msg.expiresAt) \/ t <= msg.expiresAt)

\* variant: a key whose entries have all expired keeps an empty array
CleanMobileAppQueueKeepKeys(map, t) ==
  [k \in DOMAIN map |-> FilterUnexpired(map[k], t)]

\* variant: the sweep empties the FIFO map, unexpired entries included
CleanMobileAppQueueAll(map, t) == EmptyMap

CleanMobileAppQueue(map, t) ==
  LET kept == {k \in DOMAIN map : Len(FilterUnexpired(map[k], t)) # 0}
  IN  [k \in kept |-> FilterUnexpired(map[k], t)]

\* variant: the sweep leaves the slots alone
CleanControllerQueueNone(map, t) == map

CleanControllerQueue(map, t) ==
  LET kept == {k \in DOMAIN map : ~IsExpired(map[k], t)}
  IN  [k \in kept |-> map[k]]

CleanupAllExpiredMessages ==
  /\ mobileAppQueue' = CleanMobileAppQueue(mobileAppQueue, now)
  /\ controllerQueue' = CleanControllerQueue(controllerQueue, now)
  /\ ret' = Returned("cleanupAll", "", NoMessage, TRUE, 0)
  /\ UNCHANGED <<now, ticks, nextId, histVars, limiterVars>>

\* mobileAppCount += queue.length, over the arrays of the given keys
RECURSIVE CountIn(_, _)
CountIn(map, keys) ==
  IF keys = {} THEN 0
  ELSE LET k == CHOOSE x \in keys : TRUE
       IN  Len(map[k]) + CountIn(map, keys \ {k})

\* variant: one message is counted for every key, whatever its array holds
GetStatsPerKey(mobile, controller) ==
  [mobileAppControllers |-> Cardinality(DOMAIN mobile),
   mobileAppMessages |-> Cardinality(DOMAIN mobile),
   controllerMessages |-> Cardinality(DOMAIN controller)]

\* getStats()
GetStats(mobile, controller) ==
  [mobileAppControllers |-> Cardinality(DOMAIN mobile),
   mobileAppMessages |-> CountIn(mobile, DOMAIN mobile),
   controllerMessages |-> Cardinality(DOMAIN controller)]

\* ----------------------------------------------------------- RateLimiter
\* variant: no timestamp is ever filtered out
RecentTimestampsAll(timestamps, t) == timestamps

\* variant: ts >= windowStart, a timestamp exactly 30 seconds old is kept
RecentTimestampsInclusive(timestamps, t) ==
  SelectSeq(timestamps, LAMBDA ts : ts >= t - WINDOW)

\* timestamps.filter(ts => ts > windowStart)
RecentTimestamps(timestamps, t) ==
  SelectSeq(timestamps, LAMBDA ts : ts > t - WINDOW)

\* variant: recentTimestamps.length > 25
CheckLimitResultOver(map, key, t) ==
  LET created == IF MapHas(map, key) THEN map ELSE MapSet(map, key, <<>>)
      recentTimestamps == RecentTimestamps(created[key], t)
  IN  [map |-> MapSet(created, key, recentTimestamps),
       ok |-> ~(Len(recentTimestamps) > LIMIT)]

\* variant: recentTimestamps.length === 25
CheckLimitResultExact(map, key, t) ==
  LET created == IF MapHas(map, key) THEN map ELSE MapSet(map, key, <<>>)
      recentTimestamps == RecentTimestamps(created[key], t)
  IN  [map |-> MapSet(created, key, recentTimestamps),
       ok |-> ~(Len(recentTimestamps) = LIMIT)]

\* variant: an allowed check pushes the current clock itself
CheckLimitResultRecording(map, key, t) ==
  LET created == IF MapHas(map, key) THEN map ELSE MapSet(map, key, <<>>)
      recentTimestamps == RecentTimestamps(created[key], t)
      ok == ~(Len(recentTimestamps) >= LIMIT)
  IN  [map |-> MapSet(created, key,
                      IF ok THEN Append(recentTimestamps, t) ELSE recentTimestamps),
       ok |-> ok]

\* variant: the filtered list is used for the count but not stored back
CheckLimitResultUnstored(map, key, t) ==
  LET created == IF MapHas(map, key) THEN map ELSE MapSet(map, key, <<>>)
      recentTimestamps == RecentTimestamps(created[key], t)
  IN  [map |-> created,
       ok |-> ~(Len(recentTimestamps) >= LIMIT)]

\* checkLimit(key): the map afterwards and the value returned
CheckLimitResult(map, key, t) ==
  LET created == IF MapHas(map, key) THEN map ELSE MapSet(map, key, <<>>)
      recentTimestamps == RecentTimestamps(created[key], t)
  IN  [map |-> MapSet(created, key, recentTimestamps),
       ok |-> ~(Len(recentTimestamps) >= LIMIT)]

CheckLimit(key) ==
  LET r == CheckLimitResult(requests, key, now)
  IN  /\ requests' = r.map
      /\ ret' = Returned("checkLimit", key, NoMessage, r.ok, 0)
      /\ blocked' = IF r.ok THEN blocked ELSE blocked \cup {key}
      /\ UNCHANGED <<now, ticks, queueVars, nextId, histVars, window>>

\* recordRequest(key)
RecordRequestTo(map, key, t) ==
  LET created == IF MapHas(map, key) THEN map ELSE MapSet(map, key, <<>>)
  IN  MapSet(created, key, Append(created[key], t))

RecordRequest(key) ==
  /\ requests' = RecordRequestTo(requests, key, now)
  /\ window' = [window EXCEPT ![key] = Append(@, now)]
  /\ ret' = Returned("recordRequest", key, NoMessage, TRUE, 0)
  /\ UNCHANGED <<now, ticks, queueVars, nextId, histVars, blocked>>

\* variant: the sweep filters every array and deletes no key
CleanupRequestsKeepKeys(map, t) ==
  [key \in DOMAIN map |-> RecentTimestamps(map[key], t)]

\* variant: the sweep empties the limiter
CleanupRequestsAll(map, t) == EmptyMap

\* cleanup()
CleanupRequests(map, t) ==
  LET kept == {key \in DOMAIN map : Len(RecentTimestamps(map[key], t)) # 0}
  IN  [key \in kept |-> RecentTimestamps(map[key], t)]

Cleanup ==
  /\ requests' = CleanupRequests(requests, now)
  /\ ret' = Returned("cleanup", "", NoMessage, TRUE, 0)
  /\ UNCHANGED <<now, ticks, queueVars, nextId, histVars, window, blocked>>

\* getStats().trackedKeys
TrackedKeys(map) == Cardinality(DOMAIN map)

\* the number of timestamps the limiter holds
RECURSIVE StoredIn(_, _)
StoredIn(map, keys) ==
  IF keys = {} THEN 0
  ELSE LET key == CHOOSE x \in keys : TRUE
       IN  Len(map[key]) + StoredIn(map, keys \ {key})

Stored == StoredIn(requests, DOMAIN requests)

\* the calls the engine accepts, with their inputs; at most `limit` messages
\* are created in one behaviour
EnqueueCall(limit) ==
  \E k \in Keys, p \in Payloads, e \in SuppliedExpiry :
    /\ nextId < limit
    /\ AddMobileAppMessage(k, NewMessage(k, MobileSender, p, e))

UpsertCall(limit) ==
  \E k \in Keys, p \in Payloads, e \in SuppliedExpiry :
    /\ nextId < limit
    /\ AddControllerMessage(k, NewMessage(k, ControllerSender, p, e))

DequeueCall == \E k \in Keys : GetMobileAppMessage(k)

TakeCall == \E k \in Keys : GetControllerMessage(k)

QueueTick == Tick(QueueSteps)

\* the mobile-to-controller direction alone
NextFifo ==
  \/ EnqueueCall(MaxMessages)
  \/ DequeueCall
  \/ CleanupAllExpiredMessages
  \/ QueueTick

SpecFifo == Init /\ [][NextFifo]_vars

\* the controller-to-mobile direction alone
NextSlot ==
  \/ UpsertCall(MaxMessages)
  \/ TakeCall
  \/ CleanupAllExpiredMessages
  \/ QueueTick

SpecSlot == Init /\ [][NextSlot]_vars

\* both directions
NextQueue ==
  \/ EnqueueCall(MaxMixed)
  \/ UpsertCall(MaxMixed)
  \/ DequeueCall
  \/ TakeCall
  \/ CleanupAllExpiredMessages
  \/ QueueTick

SpecQueue == Init /\ [][NextQueue]_vars

\* getStats() called as an operation of its own
GetStatsCall ==
  /\ ret' = [Returned("getStats", "", NoMessage, TRUE, 0)
               EXCEPT !.val = GetStats(mobileAppQueue, controllerQueue)]
  /\ UNCHANGED <<now, ticks, queueVars, nextId, histVars, limiterVars>>

\* both directions, with the counts read at any point
NextStats ==
  \/ EnqueueCall(MaxMixed)
  \/ UpsertCall(MaxMixed)
  \/ DequeueCall
  \/ TakeCall
  \/ CleanupAllExpiredMessages
  \/ GetStatsCall
  \/ QueueTick

SpecStats == Init /\ [][NextStats]_vars

\* both directions, with the setInterval timer of startCleanup firing again
\* and again and the clock advancing
NextSweep ==
  \/ EnqueueCall(MaxSwept)
  \/ UpsertCall(MaxSwept)
  \/ DequeueCall
  \/ TakeCall
  \/ CleanupAllExpiredMessages
  \/ QueueTick

SpecSweep ==
  /\ Init /\ [][NextSweep]_vars
  /\ WF_vars(CleanupAllExpiredMessages)
  /\ WF_vars(QueueTick)

\* the rate limiter alone, called in any order
CheckCall == \E key \in LimiterKeys : CheckLimit(key)

RecordCall ==
  \E key \in LimiterKeys :
    /\ Stored < MaxStored
    /\ RecordRequest(key)

LimiterTick == Tick(LimiterSteps)

NextLimiter ==
  \/ CheckCall
  \/ RecordCall
  \/ Cleanup
  \/ LimiterTick

SpecLimiter == Init /\ [][NextLimiter]_vars

\* the rate limiter with traffic that stops: calls arrive only until the
\* clock has made its last advance, and the setInterval timer of the
\* constructor goes on firing
QuietCheck == ticks < MaxTicks /\ CheckCall
QuietRecord == ticks < MaxTicks /\ RecordCall

NextReclaim ==
  \/ QuietCheck
  \/ QuietRecord
  \/ Cleanup
  \/ LimiterTick

SpecReclaim ==
  /\ Init /\ [][NextReclaim]_vars
  /\ WF_vars(Cleanup)
  /\ WF_vars(LimiterTick)

\* ---------------------------------------------------------------- routes
\* The mobile routes are those of routes/mobile.js, the controller routes
\* those that validate a numeric controllerId.  In a request body
\* controllerId is "num:7" for the number 7, "str:7" for the string "7" and
\* "missing" when absent; protobufPayload is "" when absent.
\* verifyJWT: the account of the token, or "" when the Authorization header
\* is missing or malformed or the token fails verification (HTTP 401)
Credentials == Accounts \cup {""}

\* clock advances between requests: one millisecond less than the window, so
\* that the windows of consecutive clock values overlap
RouteSteps == {WINDOW - 1}

\* parseInt(controllerIdParam, 10): the Map key of the number, "NaN" if none
ParseInt(param) == IF param = "7" THEN "num:7" ELSE "NaN"

\* req.params.controllerId used as a Map key: the string itself
ParamKey(param) == IF param = "7" THEN "str:7" ELSE "str:other"

\* the number of times key occurs in a sequence of keys
Times(recorded, key) == Len(SelectSeq(recorded, LAMBDA x : x = key))

\* history: t noted once for every recordRequest carried out
Noted(w, recorded, t) ==
  [key \in DOMAIN w |-> w[key] \o [i \in 1..Times(recorded, key) |-> t]]

\* variant: the account key is recorded as soon as its own check has passed
MobileLimitResultEager(map, a, ip, t) ==
  LET auth == CheckLimitResult(map, AuthKey(a), t)
      eager == RecordRequestTo(auth.map, AuthKey(a), t)
      addr == CheckLimitResult(eager, IpKey(ip), t)
  IN  IF ~auth.ok
      THEN [map |-> auth.map, status |-> 429, failed |-> {AuthKey(a)}, recorded |-> <<>>,
            checked |-> {AuthKey(a)}]
      ELSE IF ~addr.ok
      THEN [map |-> addr.map, status |-> 429, failed |-> {IpKey(ip)},
            recorded |-> <<AuthKey(a)>>, checked |-> {AuthKey(a), IpKey(ip)}]
      ELSE [map |-> RecordRequestTo(addr.map, IpKey(ip), t),
            status |-> 0, failed |-> {}, recorded |-> <<AuthKey(a), IpKey(ip)>>,
            checked |-> {AuthKey(a), IpKey(ip)}]

\* variant: a request that a check refuses is recorded all the same
MobileLimitResultRecordRefused(map, a, ip, t) ==
  LET auth == CheckLimitResult(map, AuthKey(a), t)
      addr == CheckLimitResult(auth.map, IpKey(ip), t)
  IN  IF ~auth.ok
      THEN [map |-> RecordRequestTo(auth.map, AuthKey(a), t), status |-> 429,
            failed |-> {AuthKey(a)}, recorded |-> <<AuthKey(a)>>,
            checked |-> {AuthKey(a)}]
      ELSE IF ~addr.ok
      THEN [map |-> RecordRequestTo(addr.map, IpKey(ip), t), status |-> 429,
            failed |-> {IpKey(ip)}, recorded |-> <<IpKey(ip)>>,
            checked |-> {AuthKey(a), IpKey(ip)}]
      ELSE [map |-> RecordRequestTo(RecordRequestTo(addr.map, AuthKey(a), t), IpKey(ip), t),
            status |-> 0, failed |-> {}, recorded |-> <<AuthKey(a), IpKey(ip)>>,
            checked |-> {AuthKey(a), IpKey(ip)}]

\* variant: the result of the check on the address key is ignored
MobileLimitResultAccountOnly(map, a, ip, t) ==
  LET auth == CheckLimitResult(map, AuthKey(a), t)
      addr == CheckLimitResult(auth.map, IpKey(ip), t)
  IN  IF ~auth.ok
      THEN [map |-> auth.map, status |-> 429, failed |-> {AuthKey(a)}, recorded |-> <<>>,
            checked |-> {AuthKey(a)}]
      ELSE [map |-> RecordRequestTo(RecordRequestTo(addr.map, AuthKey(a), t), IpKey(ip), t),
            status |-> 0, failed |-> {}, recorded |-> <<AuthKey(a), IpKey(ip)>>,
            checked |-> {AuthKey(a), IpKey(ip)}]

\* variant: the results of the two checks are ignored
MobileLimitResultUnchecked(map, a, ip, t) ==
  LET auth == CheckLimitResult(map, AuthKey(a), t)
      addr == CheckLimitResult(auth.map, IpKey(ip), t)
  IN  [map |-> RecordRequestTo(RecordRequestTo(addr.map, AuthKey(a), t), IpKey(ip), t),
       status |-> 0, failed |-> {}, recorded |-> <<AuthKey(a), IpKey(ip)>>,
            checked |-> {AuthKey(a), IpKey(ip)}]

\* the rate limiting of a mobile route: checkLimit on the account key,
\* checkLimit on the address key, then recordRequest on both; the Map
\* afterwards, 429 if a check refused, the key refused and the keys recorded
MobileLimitResult(map, a, ip, t) ==
  LET auth == CheckLimitResult(map, AuthKey(a), t)
      addr == CheckLimitResult(auth.map, IpKey(ip), t)
  IN  IF ~auth.ok
      THEN [map |-> auth.map, status |-> 429, failed |-> {AuthKey(a)}, recorded |-> <<>>,
            checked |-> {AuthKey(a)}]
      ELSE IF ~addr.ok
      THEN [map |-> addr.map, status |-> 429, failed |-> {IpKey(ip)}, recorded |-> <<>>,
            checked |-> {AuthKey(a), IpKey(ip)}]
      ELSE [map |-> RecordRequestTo(RecordRequestTo(addr.map, AuthKey(a), t), IpKey(ip), t),
            status |-> 0, failed |-> {}, recorded |-> <<AuthKey(a), IpKey(ip)>>,
            checked |-> {AuthKey(a), IpKey(ip)}]

\* the limiter after the rate limiting of a mobile route
Limited(r) ==
  /\ requests' = r.map
  /\ window' = Noted(window, r.recorded, now)
  /\ blocked' = blocked \cup r.failed

\* the load offered: every account but the first sends at most MaxOther
\* accepted requests within one window
Admitted(a) == a # "user-1" => Len(window[AuthKey(a)]) < MaxOther

\* a response sent before the handler has touched the limiter or the queue
Rejected(response) ==
  /\ ret' = response
  /\ UNCHANGED <<now, ticks, queueVars, nextId, histVars, limiterVars>>

\* variant: the message is enqueued before the rate limiter is asked
MobilePostMessageFirst(bodies) ==
  \E a \in Credentials, ip \in Addresses, body \in bodies :
    LET c == body.controllerId
        p == body.protobufPayload
    IN  IF a = "" THEN Rejected(Responded("postMessage", a, ip, c, NoMessage, 401))
        ELSE IF c = "missing" \/ p = ""
        THEN Rejected(Responded("postMessage", a, ip, c, NoMessage, 400))
        ELSE LET r == MobileLimitResult(requests, a, ip, now)
                 sender == [ip |-> ip, type |-> "mobile", authId |-> a]
             IN  /\ Limited(r)
                 /\ UNCHANGED <<now, ticks>>
                 /\ nextId < MaxRelayed
                 /\ Admitted(a)
                 /\ Enqueued(c, NewMessage(c, sender, p, 0))
                 /\ ret' = Consulted(Responded("postMessage", a, ip, c, NoMessage,
                                               IF r.status = 429 THEN 429 ELSE 200),
                                     r.checked)

\* POST /mobile/message
MobilePostMessage(bodies) ==
  \E a \in Credentials, ip \in Addresses, body \in bodies :
    LET c == body.controllerId
        p == body.protobufPayload
    IN  IF a = "" THEN Rejected(Responded("postMessage", a, ip, c, NoMessage, 401))
        ELSE IF c = "missing" \/ p = ""
        THEN Rejected(Responded("postMessage", a, ip, c, NoMessage, 400))
        ELSE LET r == MobileLimitResult(requests, a, ip, now)
                 sender == [ip |-> ip, type |-> "mobile", authId |-> a]
             IN  /\ Limited(r)
                 /\ UNCHANGED <<now, ticks>>
                 /\ IF r.status = 429
                    THEN /\ ret' = Consulted(Responded("postMessage", a, ip, c, NoMessage, 429), r.checked)
                         /\ UNCHANGED <<queueVars, nextId, histVars>>
                    ELSE /\ nextId < MaxRelayed
                         /\ Admitted(a)
                         /\ Enqueued(c, NewMessage(c, sender, p, 0))
                         /\ ret' = Consulted(Responded("postMessage", a, ip, c, NoMessage, 200), r.checked)

\* variant: the status route keeps a budget of its own, apart from the one
\* of POST /mobile/message
MobileGetStatusOwnBudget(params) ==
  \E a \in Credentials, ip \in Addresses, param \in params :
    LET c == ParamKey(param)
    IN  IF a = "" THEN Rejected(Responded("getStatus", a, ip, c, NoMessage, 401))
        ELSE LET own == MobileLimitResult(requests, IF a = "user-1" THEN "user-1/status"
                                                    ELSE "user-2/status",
                                          "10.0.0.1/status", now)
                 r == [own EXCEPT !.recorded = IF own.status = 429 THEN <<>>
                                               ELSE <<AuthKey(a), IpKey(ip)>>,
                                  !.failed = {}]
                 s == GetControllerMessageResult(controllerQueue, c, now)
             IN  /\ Limited(r)
                 /\ UNCHANGED <<now, ticks>>
                 /\ IF r.status = 429
                    THEN /\ ret' = Consulted(Responded("getStatus", a, ip, c, NoMessage, 429), r.checked)
                         /\ UNCHANGED <<queueVars, nextId, histVars>>
                    ELSE /\ Admitted(a)
                         /\ Taken(c, s)
                         /\ ret' = Consulted(Responded("getStatus", a, ip, c, s.val,
                                                       IF s.val = NoMessage THEN 404 ELSE 200),
                                             r.checked)

\* variant: the address of a request is recorded before its token is verified
MobileGetStatusCounted(params) ==
  \E a \in Credentials, ip \in Addresses, param \in params :
    LET c == ParamKey(param)
    IN  IF a = ""
        THEN /\ requests' = RecordRequestTo(requests, IpKey(ip), now)
             /\ window' = Noted(window, <<IpKey(ip)>>, now)
             /\ ret' = Responded("getStatus", a, ip, c, NoMessage, 401)
             /\ UNCHANGED <<now, ticks, queueVars, nextId, histVars, blocked>>
        ELSE LET r == MobileLimitResult(requests, a, ip, now)
                 s == GetControllerMessageResult(controllerQueue, c, now)
             IN  /\ Limited(r)
                 /\ UNCHANGED <<now, ticks>>
                 /\ IF r.status = 429
                    THEN /\ ret' = Consulted(Responded("getStatus", a, ip, c, NoMessage, 429), r.checked)
                         /\ UNCHANGED <<queueVars, nextId, histVars>>
                    ELSE /\ Admitted(a)
                         /\ Taken(c, s)
                         /\ ret' = Consulted(Responded("getStatus", a, ip, c, s.val,
                                                       IF s.val = NoMessage THEN 404 ELSE 200),
                                             r.checked)

\* GET /mobile/status/:controllerId
MobileGetStatus(params) ==
  \E a \in Credentials, ip \in Addresses, param \in params :
    LET c == ParamKey(param)
    IN  IF a = "" THEN Rejected(Responded("getStatus", a, ip, c, NoMessage, 401))
        ELSE LET r == MobileLimitResult(requests, a, ip, now)
                 s == GetControllerMessageResult(controllerQueue, c, now)
             IN  /\ Limited(r)
                 /\ UNCHANGED <<now, ticks>>
                 /\ IF r.status = 429
                    THEN /\ ret' = Consulted(Responded("getStatus", a, ip, c, NoMessage, 429), r.checked)
                         /\ UNCHANGED <<queueVars, nextId, histVars>>
                    ELSE /\ Admitted(a)
                         /\ Taken(c, s)
                         /\ ret' = Consulted(Responded("getStatus", a, ip, c, s.val,
                                                       IF s.val = NoMessage THEN 404 ELSE 200),
                                             r.checked)

\* POST /controller/heartbeat
ControllerHeartbeat(bodies) ==
  \E ip \in Addresses, body \in bodies :
    LET c == body.controllerId
        p == body.protobufPayload
    IN  IF c = "missing" \/ c = "str:7" \/ p = ""
        THEN Rejected(Responded("heartbeat", "", ip, c, NoMessage, 400))
        ELSE LET sender == [ip |-> ip, type |-> "controller", authId |-> ""]
             IN  /\ nextId < MaxRelayed
                 /\ Upserted(c, NewMessage(c, sender, p, 0))
                 /\ ret' = Responded("heartbeat", "", ip, c, NoMessage, 200)
                 /\ UNCHANGED <<now, ticks, limiterVars>>

\* GET /controller/messages/:controllerId
ControllerGetMessages(params) ==
  \E ip \in Addresses, param \in params :
    LET c == ParseInt(param)
        r == GetMobileAppMessageResult(mobileAppQueue, c, now)
    IN  IF c = "NaN"
        THEN Rejected(Responded("getMessages", "", ip, c, NoMessage, 400))
        ELSE /\ Dequeued(c, r)
             /\ ret' = Responded("getMessages", "", ip, c, r.val, 200)
             /\ UNCHANGED <<now, ticks, limiterVars>>

RouteTick == Tick(RouteSteps)

\* the request bodies and URL parameters sent while the rate limit is
\* exercised: one well-formed body, one without controllerId, one without
\* protobufPayload
LoadBodies ==
  {[controllerId |-> "num:7", protobufPayload |-> "cGF5bG9hZC1B"],
   [controllerId |-> "missing", protobufPayload |-> "cGF5bG9hZC1B"],
   [controllerId |-> "num:7", protobufPayload |-> ""]}
LoadParams == {"7"}

\* the server: the four routes and the two periodic sweeps
Next ==
  \/ MobilePostMessage(LoadBodies)
  \/ MobileGetStatus(LoadParams)
  \/ ControllerHeartbeat(LoadBodies)
  \/ ControllerGetMessages(UrlIds)
  \/ CleanupAllExpiredMessages
  \/ Cleanup
  \/ RouteTick

Spec == Init /\ [][Next]_vars

\* the requests sent end to end: controllerId as the number 7 and as the
\* string "7" in a body, 7 in a URL
RelayBodies ==
  {[controllerId |-> "num:7", protobufPayload |-> "cGF5bG9hZC1B"],
   [controllerId |-> "str:7", protobufPayload |-> "cGF5bG9hZC1C"]}
RelayParams == {"7"}

\* clock advances between the two ends: one millisecond, and the time to live
RelaySteps == {1, TTL}
RelayTick == Tick(RelaySteps)

\* the server relaying in both directions, under a load that stays below
\* the rate limit
RelayPost == Stored < 2 * MaxAsked /\ MobilePostMessage(RelayBodies)
RelayStatus == Stored < 2 * MaxAsked /\ MobileGetStatus(RelayParams)

NextRelay ==
  \/ RelayPost
  \/ RelayStatus
  \/ ControllerHeartbeat(RelayBodies)
  \/ ControllerGetMessages(RelayParams)
  \/ CleanupAllExpiredMessages
  \/ Cleanup
  \/ RelayTick

SpecRelay == Init /\ [][NextRelay]_vars

\* ----------------------------------------------------------------------
\* Properties of the mobile-to-controller FIFO (SpecFifo)

IsPrefix(s, t) == Len(s) <= Len(t) /\ \A i \in 1..Len(s) : s[i] = t[i]

SeqIds(s) == {s[i] : i \in 1..Len(s)}

StoredIds(k) == IF MapHas(mobileAppQueue, k) THEN IdsOf(mobileAppQueue[k]) ELSE {}

\* the entries enqueued on k that were removed without being returned
Lost(k) == SeqIds(fifoIn[k]) \ (StoredIds(k) \cup SeqIds(fifoOut[k]))

\* C1: FIFO delivery. As long as no entry of key k has been removed by
\* expiry, the entries the dequeues on k have returned are, in order, the
\* first entries enqueued on k, and a dequeue on k returns none only when
\* every entry enqueued on k has been returned.
C1_FifoDelivery ==
  \A k \in Keys :
    Lost(k) = {} =>
      /\ IsPrefix(fifoOut[k], fifoIn[k])
      /\ (ret.op = "getMobile" /\ ret.key = k /\ ret.val = NoMessage
            => fifoOut[k] = fifoIn[k])

\* three enqueues on one key followed by three dequeues that returned them
C1_Witness ==
  \E k \in Keys :
    /\ Len(fifoIn[k]) >= 3
    /\ fifoOut[k] = fifoIn[k]
    /\ ret.op = "getMobile" /\ ret.key = k /\ ret.val # NoMessage

\* C10: at most once delivery of commands. Whatever the order in which
\* dequeues, enqueues and sweeps run, no enqueued entry is returned by more
\* than one dequeue call.
C10_AtMostOnce ==
  \A k1 \in Keys, k2 \in Keys :
    \A i \in 1..Len(fifoOut[k1]), j \in 1..Len(fifoOut[k2]) :
      fifoOut[k1][i] = fifoOut[k2][j] => k1 = k2 /\ i = j

\* two dequeues on one key have returned entries, a sweep has just run and
\* a later enqueue on the key is still stored
C10_Witness ==
  \E k \in Keys :
    /\ Len(fifoOut[k]) >= 2
    /\ StoredIds(k) # {}
    /\ ret.op = "cleanupAll"

\* ----------------------------------------------------------------------
\* Properties of the controller-to-mobile slot (SpecSlot)

\* C3: latest wins. A take on key k never returns anything but the entry
\* of the latest upsert on k, and it does return that entry unless an
\* earlier take already returned it or its expiry has passed.
C3_LatestWins ==
  \A k \in Keys :
    ret.op = "getController" /\ ret.key = k =>
      /\ ret.val # NoMessage => ret.val.id = slotIn[k].id
      /\ ret.val = NoMessage /\ slotIn[k].id # 0 =>
            \/ slotOut[slotIn[k].id] >= 1
            \/ now > slotIn[k].born + TTL

\* two upserts on one key, then a take that returned the second
C3_Witness ==
  \E k \in Keys :
    /\ slotIn[k].n >= 2
    /\ ret.op = "getController" /\ ret.key = k
    /\ ret.val # NoMessage /\ ret.val.id = slotIn[k].id

IsGet == ret.op \in {"getMobile", "getController"}

\* C2 as stated: an entry added at clock time T is never returned by a call
\* at a clock time >= T + TTL.
C2_NeverAtOrAfterTtl ==
  IsGet /\ ret.val # NoMessage => now < ret.val.born + TTL

\* C2 as amended: an entry added at clock time T is never returned by a
\* call at a clock time > T + TTL, whether or not a sweep has run.
C2_NeverAfterTtl ==
  IsGet /\ ret.val # NoMessage => now <= ret.val.born + TTL

\* a take, with no sweep before it, found the entry of its key past its
\* expiry and returned none
C2_Witness ==
  \E k \in Keys :
    /\ ret.op = "getController" /\ ret.key = k /\ ret.val = NoMessage
    /\ slotIn[k].id # 0
    /\ slotOut[slotIn[k].id] = 0
    /\ now > slotIn[k].born + TTL
    /\ \E j \in Keys : MapHas(mobileAppQueue, j) /\ Len(mobileAppQueue[j]) = 0
\* ----------------------------------------------------------------------
\* Properties of the rate limiter called in any order (SpecLimiter)

\* what checkLimit(key) returns when called in the current state
Allowed(key) == CheckLimitResult(requests, key, now).ok

\* C5: a checkLimit(K) call returns false if and only if at least 25 of
\* the timestamps recorded for K lie in the trailing window (now - 30 s, now].
C5_FalseIffWindowFull ==
  ret.op = "checkLimit" => (ret.ok = FALSE <=> Len(window[ret.key]) >= LIMIT)

\* a refusal with exactly 25 timestamps in the window, one of them 29.999 s old
C5_Witness ==
  /\ ret.op = "checkLimit" /\ ret.ok = FALSE
  /\ Len(window[ret.key]) = LIMIT
  /\ window[ret.key][1] = now - (WINDOW - 1)

\* C7: with n timestamps of K recorded within one window, checkLimit(K) is
\* true for n = 0..24 (the first 25 calls), false for n = 25 (the 26th call),
\* and still false once a 26th timestamp has been recorded anyway.
C7_TwentySixth ==
  \A key \in RateKeys :
    LET n == Len(window[key])
    IN  /\ n < LIMIT => Allowed(key)
        /\ n = LIMIT => ~Allowed(key)
        /\ n = LIMIT + 1 => ~Allowed(key)

\* a 26th timestamp was recorded in the window, and the check after it refused
C7_Witness ==
  \E key \in RateKeys :
    /\ Len(window[key]) = LIMIT + 1
    /\ ret.op = "checkLimit" /\ ret.key = key /\ ret.ok = FALSE

\* C8: recovery. A key that checkLimit has refused is allowed again as soon
\* as fewer than 25 of its timestamps remain in the window, with no reset
\* call and whether or not the sweep has run.
C8_Recovery ==
  \A key \in blocked : Len(window[key]) < LIMIT => Allowed(key)

\* a refused key, some of whose timestamps have aged out and some not, has
\* been checked again and allowed
C8_Witness ==
  \E key \in blocked :
    /\ Len(window[key]) > 0
    /\ Len(window[key]) < LIMIT
    /\ ret.op = "checkLimit" /\ ret.key = key /\ ret.ok = TRUE

\* C11: upserts on one key, in whatever order they run, leave the slot
\* holding the entry of the upsert that ran last and nothing of an earlier
\* one: its object, its payload, its sender, its controllerId and the
\* expiry computed at its own clock time.
C11_LastUpsertWhole ==
  \A k \in Keys :
    ret.op = "addController" /\ ret.key = k =>
      /\ MapHas(controllerQueue, k)
      /\ controllerQueue[k].id = slotIn[k].id
      /\ controllerQueue[k].protobufPayload = slotIn[k].payload
      /\ controllerQueue[k].sender = slotIn[k].sender
      /\ controllerQueue[k].controllerId = k
      /\ controllerQueue[k].timestamp = slotIn[k].born
      /\ controllerQueue[k].expiresAt = slotIn[k].born + TTL

\* three upserts on one key, the last one later than the first and with the
\* second payload, and nothing taken in between
C11_Witness ==
  \E k \in Keys :
    /\ ret.op = "addController" /\ ret.key = k
    /\ slotIn[k].n >= 3
    /\ \A i \in Ids : slotOut[i] = 0
    /\ slotIn[k].born > 0
    /\ slotIn[k].payload = "cGF5bG9hZC1C"

\* C12: no key of the mobile-to-controller FIFO map is ever mapped to an
\* empty sequence.
C12_NoEmptySequence ==
  \A k \in DOMAIN mobileAppQueue : Len(mobileAppQueue[k]) > 0

\* every entry enqueued on k has been returned by a dequeue, and there was one
AllDelivered(k) == Len(fifoIn[k]) > 0 /\ fifoOut[k] = fifoIn[k]

\* C13: once the n entries enqueued on key k have been returned by n
\* dequeues, k is no key of the FIFO map, a further dequeue on k returns
\* none, and getStats counts what it would count without k: no message and
\* no controller for k.
C13_DrainedKeyAbsent ==
  \A k \in Keys :
    AllDelivered(k) =>
      /\ ~MapHas(mobileAppQueue, k)
      /\ GetMobileAppMessageResult(mobileAppQueue, k, now).val = NoMessage
      /\ GetStats(mobileAppQueue, controllerQueue)
           = GetStats(MapDelete(mobileAppQueue, k), controllerQueue)

\* three entries enqueued on one key and returned in order, then a fourth
\* dequeue that returned none
C13_Witness ==
  \E k \in Keys :
    /\ Len(fifoIn[k]) = 3
    /\ AllDelivered(k)
    /\ ret.op = "getMobile" /\ ret.key = k /\ ret.val = NoMessage

\* the expiry of an entry created at clock born has passed at clock t
Passed(born, t) == t > born + TTL

\* C14: right after a sweep at clock t no array of the FIFO map and no slot
\* holds an entry whose expiry has passed at t, and no FIFO key is mapped to
\* an empty array; so a key none of whose entries was dequeued and all of
\* whose entries are past their expiry is no key of the map any more, a
\* dequeue on it returns none and getStats counts nothing for it.
C14_SweepLeavesNoExpired ==
  ret.op = "cleanupAll" =>
    /\ \A k \in DOMAIN mobileAppQueue :
         /\ Len(mobileAppQueue[k]) > 0
         /\ \A i \in 1..Len(mobileAppQueue[k]) : ~Passed(mobileAppQueue[k][i].born, now)
    /\ \A k \in DOMAIN controllerQueue : ~Passed(controllerQueue[k].born, now)
    /\ \A k \in Keys :
         Len(fifoIn[k]) > 0 /\ fifoOut[k] = <<>> /\ Lost(k) = SeqIds(fifoIn[k]) =>
           /\ ~MapHas(mobileAppQueue, k)
           /\ GetMobileAppMessageResult(mobileAppQueue, k, now).val = NoMessage
           /\ GetStats(mobileAppQueue, controllerQueue)
                = GetStats(MapDelete(mobileAppQueue, k), controllerQueue)

\* a sweep has just run after an enqueued entry and an upserted heartbeat
\* were left past their expiry, neither having been read, and both are gone
C14_Witness ==
  /\ ret.op = "cleanupAll"
  /\ \E k \in Keys :
       /\ Len(fifoIn[k]) > 0 /\ fifoOut[k] = <<>>
       /\ ~MapHas(mobileAppQueue, k)
  /\ \E k \in Keys :
       /\ slotIn[k].id # 0 /\ slotOut[slotIn[k].id] = 0
       /\ Passed(slotIn[k].born, now)
       /\ ~MapHas(controllerQueue, k)

\* the entry with id i is held by one of the two maps
Held(i) ==
  \/ \E k \in DOMAIN mobileAppQueue : i \in IdsOf(mobileAppQueue[k])
  \/ \E k \in DOMAIN controllerQueue : controllerQueue[k].id = i

\* the entry with id i is held by one of the two maps past its expiry
HeldExpired(i) ==
  \/ \E k \in DOMAIN mobileAppQueue : \E j \in 1..Len(mobileAppQueue[k]) :
       mobileAppQueue[k][j].id = i /\ Passed(mobileAppQueue[k][j].born, now)
  \/ \E k \in DOMAIN controllerQueue :
       controllerQueue[k].id = i /\ Passed(controllerQueue[k].born, now)

\* k is a key of the FIFO map with no entry left
EmptyKey(k) == MapHas(mobileAppQueue, k) /\ Len(mobileAppQueue[k]) = 0

\* C15: memory reclamation. With the sweep timer firing again and again,
\* every entry that is still held by a map once its expiry has passed is
\* eventually removed from the map, polled or not, and a FIFO key with no
\* entry left eventually stops being an empty key of the map.
C15_Reclaimed ==
  /\ \A i \in Ids : HeldExpired(i) ~> ~Held(i)
  /\ \A k \in Keys : EmptyKey(k) ~> ~EmptyKey(k)

\* an entry was enqueued and never dequeued, the clock has passed its
\* expiry, and after a sweep its key is gone
C15_Witness ==
  /\ ret.op = "cleanupAll"
  /\ now > TTL
  /\ \E k \in Keys :
       /\ Len(fifoIn[k]) = 1 /\ fifoOut[k] = <<>>
       /\ ~MapHas(mobileAppQueue, k)

\* ----------------------------------------------------------------------
\* Properties of the rate limiting done by the routes (Spec)

\* C6: rate bound. With every recordRequest(K) preceded in the same request
\* by a checkLimit(K) that returned true, as the routes do, no key ever has
\* more than 25 recorded timestamps inside the trailing 30 second window.
C6_RateBound ==
  \A key \in RateKeys : Len(window[key]) <= LIMIT

\* a request has just been refused for a key whose 25 timestamps in the
\* window were recorded at two different clock values
C6_Witness ==
  /\ ret.status = 429
  /\ \E key \in blocked :
       /\ Len(window[key]) = LIMIT
       /\ window[key][1] # window[key][LIMIT]

\* the timestamps the limiter holds for key in the window (t - 30 s, t]
Recent(map, key, t) == IF MapHas(map, key) THEN InWindow(map[key], t) ELSE <<>>

\* the window of key holds 25 timestamps or more: its check fails
Full(key) == Len(window[key]) >= LIMIT

\* a mobile request that got past authentication and validation
IsMobile(r) == r.op \in {"postMessage", "getStatus"} /\ r.status \in {200, 404, 429}

\* C9: for every request handled by POST /mobile/message or GET
\* /mobile/status, if the account-key check or the address-key check fails
\* the limiter holds the same timestamps for every key afterwards, and if
\* both pass it holds exactly one more, the current clock, for the account
\* key and exactly one more for the address key, and no other change.
C9_CountedOnce ==
  [][IsMobile(ret') =>
       LET accountKey == AuthKey(ret'.who[1])
           addressKey == IpKey(ret'.who[2])
           passed == ~Full(accountKey) /\ ~Full(addressKey)
       IN  \A key \in RateKeys :
             Recent(requests', key, now) =
               IF passed /\ key \in {accountKey, addressKey}
               THEN Append(Recent(requests, key, now), now)
               ELSE Recent(requests, key, now)]_vars

\* a request has just been refused on its address key while its account key
\* was still under the limit, and it was recorded for neither
C9_Witness ==
  /\ IsMobile(ret) /\ ret.status = 429
  /\ ~Full(AuthKey(ret.who[1]))
  /\ Len(window[AuthKey(ret.who[1])]) > 0
  /\ Full(IpKey(ret.who[2]))

\* a request whose handler has reached the message queue: every route
\* answers 200 after its queue call, GET /mobile/status also 404
ReachedQueue(r) ==
  /\ r.op \in {"postMessage", "getStatus", "heartbeat", "getMessages"}
  /\ r.status \in {200, 404}

\* C16: every request that enqueues, upserts, dequeues or takes, from the
\* mobile side or from the controller side, has called checkLimit before
\* it reaches the message queue.
C16_LimiterFirst ==
  ReachedQueue(ret) => ret.checked # {}

C19_CheckRecordsNothing ==
  [][ret'.op = "checkLimit" =>
       /\ \A key \in RateKeys : Recent(requests', key, now) = Recent(requests, key, now)
       /\ ret.op = "checkLimit" /\ ret.key = ret'.key => ret'.ok = ret.ok]_vars

\* a check has just passed with 24 timestamps in the window, and 24 are
\* still all that the limiter holds for the key
C19_Witness ==
  /\ ret.op = "checkLimit" /\ ret.ok = TRUE
  /\ Len(window[ret.key]) = LIMIT - 1
  /\ Len(requests[ret.key]) = LIMIT - 1
  /\ window[ret.key][1] # window[ret.key][LIMIT - 1]

\* C20: getStats().trackedKeys is the number of keys for which the limiter
\* retains at least one timestamp; a key that was only checked is not
\* counted.
C20_TrackedKeysExact ==
  TrackedKeys(requests) = Cardinality({key \in DOMAIN requests : Len(requests[key]) > 0})

\* ----------------------------------------------------------------------
\* Absence and expiry, both directions (SpecQueue)

\* nothing was ever enqueued on k / upserted on k
NeverEnqueued(k) == fifoIn[k] = <<>>
NeverUpserted(k) == slotIn[k].id = 0

\* k is a key of the FIFO map and every entry of its array is past its expiry
AllExpired(k) ==
  /\ MapHas(mobileAppQueue, k)
  /\ \A i \in 1..Len(mobileAppQueue[k]) : Passed(mobileAppQueue[k][i].born, now)

\* the slot of k holds an entry past its expiry
SlotExpired(k) == MapHas(controllerQueue, k) /\ Passed(controllerQueue[k].born, now)

\* C21: absence is a value. A dequeue or a take on a key that never existed,
\* or whose entries are all past their expiry, returns normally and returns
\* none, the same value in both cases; on a key that never existed it leaves
\* both maps as they were and does not create the key.
C21_AbsenceIsAValue ==
  [][/\ ret'.op = "getMobile" /\ (NeverEnqueued(ret'.key) \/ AllExpired(ret'.key))
          => ret'.val = NoMessage /\ ret'.ok
     /\ ret'.op = "getController" /\ (NeverUpserted(ret'.key) \/ SlotExpired(ret'.key))
          => ret'.val = NoMessage /\ ret'.ok
     /\ ret'.op = "getMobile" /\ NeverEnqueued(ret'.key)
          => /\ mobileAppQueue' = mobileAppQueue
             /\ controllerQueue' = controllerQueue
             /\ ~MapHas(mobileAppQueue', ret'.key)
     /\ ret'.op = "getController" /\ NeverUpserted(ret'.key)
          => /\ mobileAppQueue' = mobileAppQueue
             /\ controllerQueue' = controllerQueue
             /\ ~MapHas(controllerQueue', ret'.key)]_vars

\* a dequeue on a key nothing was ever enqueued on has just returned none,
\* while the other key holds an entry and a heartbeat sits in a slot
C21_Witness ==
  \E k \in Keys :
    /\ ret.op = "getMobile" /\ ret.key = k /\ ret.val = NoMessage
    /\ NeverEnqueued(k)
    /\ ~MapHas(mobileAppQueue, k)
    /\ mobileAppQueue # EmptyMap
    /\ controllerQueue # EmptyMap

\* C22: every entry held by either map expires exactly 11 minutes after the
\* clock time of the call that stored it, and the entry an add has just
\* stored expires at the current clock plus 11 minutes whatever expiresAt
\* the caller supplied in the message.
C22_FixedTtl ==
  /\ \A k \in DOMAIN mobileAppQueue : \A i \in 1..Len(mobileAppQueue[k]) :
       mobileAppQueue[k][i].expiresAt = mobileAppQueue[k][i].born + TTL
  /\ \A k \in DOMAIN controllerQueue :
       controllerQueue[k].expiresAt = controllerQueue[k].born + TTL
  /\ ret.op = "addMobile" =>
       /\ MapHas(mobileAppQueue, ret.key)
       /\ Len(mobileAppQueue[ret.key]) > 0
       /\ mobileAppQueue[ret.key][Len(mobileAppQueue[ret.key])].expiresAt = now + TTL
  /\ ret.op = "addController" =>
       /\ MapHas(controllerQueue, ret.key)
       /\ controllerQueue[ret.key].expiresAt = now + TTL

\* an upsert at a clock time after 0 was passed a message that asked for
\* twice the time to live, while the FIFO holds an entry enqueued at an
\* earlier clock time
C22_Witness ==
  /\ ret.op = "addController" /\ ret.given = 2 * TTL
  /\ now > 0
  /\ \E k \in DOMAIN mobileAppQueue :
       Len(mobileAppQueue[k]) > 0 /\ mobileAppQueue[k][1].born < now

\* ----------------------------------------------------------------------
\* End to end through the routes (SpecRelay)

\* the controller id a Map key stands for: the number 7 and the string "7"
\* are both controller 7
IdOf(k) == IF k \in {"num:7", "str:7"} THEN "7" ELSE ""

\* the entries accepted for controller c that are still queued, under
\* whatever key, and not past their expiry
PendingFor(c) ==
  UNION {{mobileAppQueue[k][i] : i \in {j \in 1..Len(mobileAppQueue[k]) :
                                          ~Passed(mobileAppQueue[k][j].born, now)}}
         : k \in {x \in DOMAIN mobileAppQueue : IdOf(x) = c}}

Unread(k) ==
  /\ slotIn[k].id # 0
  /\ slotOut[slotIn[k].id] = 0
  /\ ~Passed(slotIn[k].born, now)

FromMobile(r) == r.op \in {"postMessage", "getStatus"}

\* C25: a request to a mobile route whose Authorization header is missing or
\* malformed or whose token fails verification is answered 401, no other
\* mobile request is, and it leaves the two queue maps and the rate limiter
\* as they were: nothing enqueued, no slot consumed, no message object
\* created, no timestamp recorded, no key created.
C25_UnauthorizedChangesNothing ==
  [][FromMobile(ret') =>
       /\ ret'.who[1] = "" <=> ret'.status = 401
       /\ ret'.status = 401 =>
            /\ mobileAppQueue' = mobileAppQueue
            /\ controllerQueue' = controllerQueue
            /\ nextId' = nextId
            /\ requests' = requests
            /\ ret'.checked = {}]_vars

\* a status request has just been answered 401 while a heartbeat sat in
\* its slot and the limiter held timestamps of earlier requests
C25_Witness ==
  /\ ret.op = "getStatus" /\ ret.status = 401
  /\ controllerQueue # EmptyMap
  /\ Stored > 0

\* ----------------------------------------------------------------------
\* Reads of the controller-to-mobile slot (SpecSlot)

\* C26: heartbeats are not deleted by a read. Every take on key k made
\* after an upsert on k and before the expiry of its entry returns that
\* entry, however many takes came before it.
C26_ReadKeepsEntry ==
  \A k \in Keys :
    /\ ret.op = "getController" /\ ret.key = k
    /\ slotIn[k].id # 0
    /\ ~Passed(slotIn[k].born, now)
    => ret.val # NoMessage /\ ret.val.id = slotIn[k].id

\* ----------------------------------------------------------------------
\* The timestamps the rate limiter holds (SpecLimiter)

\* every timestamp held for key lies inside the window that ends at t
AllRecent(map, key, t) == \A i \in 1..Len(map[key]) : map[key][i] > t - WINDOW

\* C27 as stated: in every state, for every key, the stored sequence holds
\* no timestamp older than now - 30 seconds.
C27_NoStaleStored ==
  \A key \in DOMAIN requests :
    \A i \in 1..Len(requests[key]) : requests[key][i] >= now - WINDOW

\* C27 as amended: right after checkLimit(K) the sequence stored for K, and
\* right after a sweep every stored sequence, holds only timestamps later
\* than now - 30 seconds; at other times older timestamps may still be
\* stored, but they count for nothing: checkLimit returns for every key what
\* it would return with them removed.
C27_StaleNeverCounted ==
  /\ ret.op = "checkLimit" => AllRecent(requests, ret.key, now)
  /\ ret.op = "cleanup" => \A key \in DOMAIN requests : AllRecent(requests, key, now)
  /\ \A key \in RateKeys :
       Allowed(key) = CheckLimitResult(CleanupRequests(requests, now), key, now).ok

\* a check has just run later than clock 30 s on a key that was refused
\* before, and the timestamps it left stored are those recorded inside the
\* window, at least one
C27_Witness ==
  /\ ret.op = "checkLimit"
  /\ now > WINDOW
  /\ Len(requests[ret.key]) > 0
  /\ Len(requests[ret.key]) = Len(window[ret.key])
  /\ blocked # {}

\* ----------------------------------------------------------------------
\* One dequeue, step by step (SpecFifo)

\* the array the FIFO map holds for k, empty if k is no key
ArrayOf(map, k) == IF MapHas(map, k) THEN map[k] ELSE <<>>

\* the entries of a sequence that are not past their expiry at clock t
Unexpired(queue, t) == SelectSeq(queue, LAMBDA m : ~Passed(m.born, t))

\* C28: a dequeue on key k at clock t returns none exactly when k holds no
\* entry that is unexpired at t, and otherwise returns the earliest-arrived
\* unexpired entry; afterwards the array of k holds the other unexpired
\* entries, in order, and nothing else: every expired entry in front of the
\* returned one is gone and no unexpired entry but the returned one is; the
\* arrays of the other keys are untouched.
C28_DequeueStep ==
  [][ret'.op = "getMobile" =>
       LET k == ret'.key
           live == Unexpired(ArrayOf(mobileAppQueue, k), now)
       IN  /\ ret'.val = NoMessage <=> live = <<>>
           /\ live # <<>> =>
                /\ ret'.val = live[1]
                /\ \A i \in 1..Len(live) : live[i].id >= ret'.val.id
                /\ ArrayOf(mobileAppQueue', k) = Tail(live)
           /\ live = <<>> => ArrayOf(mobileAppQueue', k) = <<>>
           /\ \A j \in Keys \ {k} :
                ArrayOf(mobileAppQueue', j) = ArrayOf(mobileAppQueue, j)]_vars

\* a dequeue has just returned the third entry of a key after the first
\* two, expired and never returned, were removed from in front of it
C28_Witness ==
  \E k \in Keys :
    /\ ret.op = "getMobile" /\ ret.key = k /\ ret.val # NoMessage
    /\ Len(fifoIn[k]) = 3
    /\ fifoOut[k] = <<fifoIn[k][3]>>
    /\ Cardinality(Lost(k)) = 2

\* C29: the sweep only reclaims memory. The timestamps the limiter holds
\* inside the window are at all times exactly those recorded inside it,
\* however the sweeps were interleaved with the calls and the clock
\* advances, and a sweep changes for no key what checkLimit returns: so every
\* checkLimit returns what it would have returned had no sweep run.
C29_SweepIsReclamation ==
  /\ [](\A key \in RateKeys : Recent(requests, key, now) = window[key])
  /\ [][ret'.op = "cleanup" =>
          \A key \in RateKeys :
            /\ Recent(requests', key, now) = Recent(requests, key, now)
            /\ CheckLimitResult(requests', key, now).ok
                  = CheckLimitResult(requests, key, now).ok]_vars

\* a sweep has just run later than clock 30 s on a limiter holding the 25
\* timestamps of a refused key, recorded at two different clock values, and
\* has kept them all
C29_Witness ==
  /\ ret.op = "cleanup"
  /\ now > WINDOW
  /\ \E key \in blocked :
       /\ MapHas(requests, key)
       /\ Len(requests[key]) = LIMIT
       /\ requests[key][1] # requests[key][LIMIT]

\* the timestamps of a sequence that are less than 30 seconds old at clock
\* t: one that is exactly 30 seconds old is not among them
YoungerThanWindow(timestamps, t) ==
  SelectSeq(timestamps, LAMBDA ts : t - ts < WINDOW)

\* the timestamps the limiter holds for key, none if key is no key
TimestampsOf(map, key) == IF MapHas(map, key) THEN map[key] ELSE <<>>

\* C30: one boundary convention. checkLimit(K) keeps of the timestamps of K
\* exactly those less than 30 seconds old, counts those and no other, and
\* the sweep keeps of every key exactly those less than 30 seconds old: in
\* both a timestamp exactly 30 seconds old is dropped.
C30_BoundaryConvention ==
  [][/\ ret'.op = "checkLimit" =>
          LET kept == YoungerThanWindow(TimestampsOf(requests, ret'.key), now)
          IN  /\ TimestampsOf(requests', ret'.key) = kept
              /\ ret'.ok = (Len(kept) < LIMIT)
     /\ ret'.op = "cleanup" =>
          \A key \in DOMAIN requests :
            TimestampsOf(requests', key) = YoungerThanWindow(requests[key], now)]_vars

\* a key refused with 25 timestamps has just been checked again when they
\* were all exactly 30 seconds old: none was kept and the check passed
C30_Witness ==
  /\ ret.op = "checkLimit" /\ ret.ok = TRUE
  /\ ret.key \in blocked
  /\ now = WINDOW
  /\ requests[ret.key] = <<>>
  /\ window[ret.key] = <<>>

\* ----------------------------------------------------------------------
\* Entries as values (SpecQueue)

\* the entries the FIFO map holds for k, as a set
EntriesOf(map, k) == {ArrayOf(map, k)[i] : i \in 1..Len(ArrayOf(map, k))}

\* entry is the message that was passed, with the expiry of a call at clock t
StoredAs(entry, message, t) ==
  /\ entry.id = message.id
  /\ entry.protobufPayload = message.protobufPayload
  /\ entry.timestamp = message.timestamp
  /\ entry.controllerId = message.controllerId
  /\ entry.sender = message.sender
  /\ entry.expiresAt = t + TTL

\* C31: round trip and immutability. The entry an enqueue or an upsert has
\* just stored has the payload, creation timestamp, controller id and sender
\* descriptor of the message it was passed and the expiry of its clock time;
\* every later step leaves every entry it keeps in a map exactly as it was,
\* and what a dequeue or a take returns is an entry exactly as the map held
\* it under that key: so a returned entry is what was passed in, unaltered.
C31_RoundTrip ==
  /\ [](ret.op = "addMobile" =>
          /\ Len(ArrayOf(mobileAppQueue, ret.key)) > 0
          /\ StoredAs(mobileAppQueue[ret.key][Len(mobileAppQueue[ret.key])], ret.arg, now))
  /\ [](ret.op = "addController" =>
          /\ MapHas(controllerQueue, ret.key)
          /\ StoredAs(controllerQueue[ret.key], ret.arg, now))
  /\ [][/\ \A k \in DOMAIN mobileAppQueue' : \A i \in 1..Len(mobileAppQueue'[k]) :
             mobileAppQueue'[k][i].id <= nextId =>
               mobileAppQueue'[k][i] \in EntriesOf(mobileAppQueue, k)
        /\ \A k \in DOMAIN controllerQueue' :
             controllerQueue'[k].id <= nextId =>
               MapHas(controllerQueue, k) /\ controllerQueue'[k] = controllerQueue[k]
        /\ ret'.op = "getMobile" /\ ret'.val # NoMessage =>
             ret'.val \in EntriesOf(mobileAppQueue, ret'.key)
        /\ ret'.op = "getController" /\ ret'.val # NoMessage =>
             MapHas(controllerQueue, ret'.key) /\ ret'.val = controllerQueue[ret'.key]]_vars

\* a dequeue has just returned an entry enqueued at an earlier clock time,
\* with the payload that is not the first, after an upsert on another key
C31_Witness ==
  \E k \in Keys :
    /\ ret.op = "getMobile" /\ ret.key = k /\ ret.val # NoMessage
    /\ ret.val.born < now
    /\ ret.val.protobufPayload = "cGF5bG9hZC1C"
    /\ ret.val.expiresAt = ret.val.born + TTL
    /\ \E j \in Keys \ {k} : slotIn[j].id # 0

\* ----------------------------------------------------------------------
\* The counts of getStats (SpecStats)

\* the number of entries enqueued on the given keys and removed neither by
\* a dequeue that returned them nor by expiry
RECURSIVE Remaining(_)
Remaining(keys) ==
  IF keys = {} THEN 0
  ELSE LET k == CHOOSE x \in keys : TRUE
       IN  Len(fifoIn[k]) - Len(fifoOut[k]) - Cardinality(Lost(k))
             + Remaining(keys \ {k})

\* C32: getStats changes neither map, and what it returns is exact:
\* mobileAppMessages is the number of entries enqueued and not yet removed
\* by a dequeue or by expiry, mobileAppControllers the number of keys of the
\* FIFO map and controllerMessages the number of occupied slots.
C32_StatsExact ==
  /\ [](ret.op = "getStats" =>
          /\ ret.val.mobileAppMessages = Remaining(Keys)
          /\ ret.val.mobileAppControllers = Cardinality({k \in Keys : MapHas(mobileAppQueue, k)})
          /\ ret.val.controllerMessages = Cardinality({k \in Keys : MapHas(controllerQueue, k)}))
  /\ [][ret'.op = "getStats" =>
          /\ mobileAppQueue' = mobileAppQueue
          /\ controllerQueue' = controllerQueue]_vars

\* getStats has just counted two messages under one key and no heartbeat,
\* after the clock has advanced
C32_Witness ==
  /\ ret.op = "getStats"
  /\ ret.val.mobileAppMessages = 2
  /\ ret.val.mobileAppControllers = 1
  /\ ret.val.controllerMessages = 0
  /\ now > 0

\* ----------------------------------------------------------------------
\* Order inside a FIFO array (SpecFifo)

\* C33: in every state every array of the FIFO map is ordered by
\* non-decreasing expiry, so the entries of a key that are expired at the
\* current clock are the first entries of its array.
C33_ExpiredIsPrefix ==
  \A k \in DOMAIN mobileAppQueue :
    \A i \in 1..Len(mobileAppQueue[k]), j \in 1..Len(mobileAppQueue[k]) :
      i < j =>
        /\ mobileAppQueue[k][i].expiresAt <= mobileAppQueue[k][j].expiresAt
        /\ IsExpired(mobileAppQueue[k][j], now) => IsExpired(mobileAppQueue[k][i], now)

\* an array holds an expired entry in front of an unexpired one that was
\* enqueued a millisecond later
C33_Witness ==
  \E k \in DOMAIN mobileAppQueue :
    /\ Len(mobileAppQueue[k]) >= 2
    /\ mobileAppQueue[k][1].expiresAt < mobileAppQueue[k][2].expiresAt
    /\ IsExpired(mobileAppQueue[k][1], now)
    /\ ~IsExpired(mobileAppQueue[k][2], now)

\* ----------------------------------------------------------------------
\* Frame of the four queue operations (SpecQueue)

\* key k is bound to the same value in maps before and after, or in neither
SameAt(before, after, k) ==
  /\ MapHas(after, k) <=> MapHas(before, k)
  /\ MapHas(before, k) => after[k] = before[k]

\* C34: an enqueue or a dequeue leaves the slot map as it was, an upsert or a
\* take leaves the FIFO map as it was, and each of the four, called on key k,
\* leaves what both maps hold for every other key as it was.
C34_KeyLocal ==
  [][/\ ret'.op \in {"addMobile", "getMobile"} => controllerQueue' = controllerQueue
     /\ ret'.op \in {"addController", "getController"} => mobileAppQueue' = mobileAppQueue
     /\ ret'.op \in {"addMobile", "getMobile", "addController", "getController"} =>
          \A k \in Keys \ {ret'.key} :
            /\ SameAt(mobileAppQueue, mobileAppQueue', k)
            /\ SameAt(controllerQueue, controllerQueue', k)]_vars

\* a take has just returned the slot of one key while the other key holds a
\* FIFO entry
C34_Witness ==
  /\ ret.op = "getController"
  /\ ret.val # NoMessage
  /\ \E k \in Keys \ {ret.key} : Len(ArrayOf(mobileAppQueue, k)) > 0

\* ----------------------------------------------------------------------
\* What the queue sweep keeps (SpecQueue)

\* the entries of before that are also in after, in the order of before
KeptOf(before, after) ==
  SelectSeq(before, LAMBDA m : \E i \in 1..Len(after) : after[i] = m)

\* C35: a sweep at clock t removes no entry whose expiry has not passed at t,
\* from the FIFO arrays or from the slots, and the entries it retains in an
\* array are in the order they had before the sweep.
C35_SweepKeepsUnexpired ==
  [][ret'.op = "cleanupAll" =>
       \A k \in Keys :
         /\ \A m \in EntriesOf(mobileAppQueue, k) :
              ~Passed(m.born, now) => m \in EntriesOf(mobileAppQueue', k)
         /\ ArrayOf(mobileAppQueue', k)
              = KeptOf(ArrayOf(mobileAppQueue, k), ArrayOf(mobileAppQueue', k))
         /\ (MapHas(controllerQueue, k) /\ ~Passed(controllerQueue[k].born, now)) =>
              (MapHas(controllerQueue', k) /\ controllerQueue'[k] = controllerQueue[k])]_vars

\* a sweep has just run at the very millisecond two entries of one array
\* expire, and has retained both
C35_Witness ==
  /\ ret.op = "cleanupAll"
  /\ \E k \in Keys :
       /\ Len(ArrayOf(mobileAppQueue, k)) = 2
       /\ mobileAppQueue[k][1].id < mobileAppQueue[k][2].id
       /\ \A i \in 1..2 : mobileAppQueue[k][i].born + TTL = now

\* ----------------------------------------------------------------------
\* The sweep against a queue that is never swept (SpecQueue)

\* C36: the history variable unswept holds the two maps as the same enqueue,
\* upsert, dequeue and take calls at the same clock values leave them when no
\* sweep ever runs. Every dequeue and every take returns what the same call
\* returns on the unswept maps, wherever sweeps were interleaved.
C36_SweepUnobservable ==
  [][/\ ret'.op = "getMobile" =>
          ret'.val = GetMobileAppMessageResult(unswept.mobileAppQueue, ret'.key, now).val
     /\ ret'.op = "getController" =>
          ret'.val = GetControllerMessageResult(unswept.controllerQueue, ret'.key, now).val]_vars

\* a dequeue has just returned an entry from a FIFO map that a sweep has made
\* different from the unswept one
C36_Witness ==
  /\ ret.op = "getMobile"
  /\ ret.val # NoMessage
  /\ \E k \in Keys :
       Len(ArrayOf(unswept.mobileAppQueue, k)) > Len(ArrayOf(mobileAppQueue, k))

\* ----------------------------------------------------------------------
\* The limiter as the routes call it (Spec)

\* C37: in the server, where recordRequest(key) is only called by a route
\* right after a checkLimit(key) that returned true, the array the limiter
\* holds for a key never has more than 25 timestamps, those that have left
\* the window included.
C37_StoredBounded ==
  \A key \in DOMAIN requests : Len(requests[key]) <= LIMIT

\* a key holds 25 timestamps, the first of which has left the window and the
\* last of which has not
C37_Witness ==
  \E key \in DOMAIN requests :
    /\ Len(requests[key]) = LIMIT
    /\ requests[key][1] <= now - WINDOW
    /\ requests[key][LIMIT] > now - WINDOW

\* C38: a mobile request that got past authentication and validation gets
\* past rate limiting exactly when, at that instant, fewer than 25 requests
\* were recorded in the window for its account key and fewer than 25 for its
\* address key. The address key is one budget for all accounts behind the
\* address (the case of C38_Witness: an account is refused on the traffic of
\* another).
C38_BothBudgets ==
  [][IsMobile(ret') =>
       (ret'.status # 429 <=>
          /\ Len(window[AuthKey(ret'.who[1])]) < LIMIT
          /\ Len(window[IpKey(ret'.who[2])]) < LIMIT)]_vars

\* an account none of whose requests is recorded in the window has just been
\* answered 429: the 25 requests recorded for its address are another
\* account's
C38_Witness ==
  /\ IsMobile(ret) /\ ret.status = 429
  /\ window[AuthKey(ret.who[1])] = <<>>
  /\ Len(window[IpKey(ret.who[2])]) = LIMIT
  /\ \E a \in Accounts \ {ret.who[1]} : window[AuthKey(a)] # <<>>

\* the instant from which key is free again: 30 seconds after the oldest of
\* the 25 requests most recently recorded for it, 0 when fewer than 25 are
\* recorded in the window (that instant has then passed, or never was)
Release(key) ==
  IF Len(window[key]) >= LIMIT
  THEN window[key][Len(window[key]) - LIMIT + 1] + WINDOW
  ELSE 0

\* C39 as stated: an account that has been refused on its own budget is
\* accepted again once 30 seconds have passed since the oldest of its 25 most
\* recently accepted requests.
C39_AcceptedAfterWindow ==
  [][/\ IsMobile(ret')
     /\ AuthKey(ret'.who[1]) \in blocked
     /\ now >= Release(AuthKey(ret'.who[1]))
     => ret'.status # 429]_vars

\* C39, amended: refused requests are never recorded and so never move the
\* instant from which a key is free again, and a request is accepted as soon
\* as that instant has come for its account key and for its address key;
\* until then the requests accepted from other accounts behind the same
\* address count under the address key.
C39_NoLockOut ==
  [][IsMobile(ret') =>
       /\ (/\ now >= Release(AuthKey(ret'.who[1]))
           /\ now >= Release(IpKey(ret'.who[2]))) => ret'.status # 429
       /\ ret'.status = 429 =>
            /\ window' = window
            /\ \A key \in RateKeys : Release(key)' = Release(key)]_vars

\* an account that was refused on its own budget and on that of its address
\* has just been accepted again, later than 30 seconds after clock 0
C39_Witness ==
  /\ IsMobile(ret) /\ ret.status # 429
  /\ AuthKey(ret.who[1]) \in blocked
  /\ IpKey(ret.who[2]) \in blocked
  /\ now > WINDOW

\* ----------------------------------------------------------------------
\* Reclamation in the rate limiter (SpecReclaim)

\* key is tracked and every timestamp held for it has left the window
Idle(key) ==
  /\ MapHas(requests, key)
  /\ \A i \in 1..Len(requests[key]) : requests[key][i] <= now - WINDOW

\* C40: memory reclamation. With the sweep timer firing again and again, a
\* tracked key all of whose timestamps have left the window is eventually
\* removed from the map, unless a request is recorded for it again first;
\* and once the traffic has stopped and every tracked key is in that state,
\* the map becomes empty and stays empty: trackedKeys is 0 from then on.
C40_KeysReclaimed ==
  /\ \A key \in LimiterKeys : Idle(key) ~> ~Idle(key)
  /\ (ticks = MaxTicks /\ \A key \in DOMAIN requests : Idle(key))
       ~> [](TrackedKeys(requests) = 0)

\* a key was refused with 25 timestamps in its window, the traffic has
\* stopped, the timestamps have left the window and a sweep has just left
\* the map empty
C40_Witness ==
  /\ ret.op = "cleanup"
  /\ blocked # {}
  /\ ticks = MaxTicks
  /\ now > WINDOW
  /\ TrackedKeys(requests) = 0
====
